---- MODULE Spec2Model ----
(***************************************************************************)
(* Model of the two request flows of the repository.                       *)
(*                                                                         *)
(*   Risk flow   src/AI- Project/diabetes_app.py  (Streamlit page):        *)
(*     load_model_and_scaler, predict_diabetes, analyze_risk_factors,      *)
(*     get_lifestyle_recommendations and the button handler of main.       *)
(*   Diet flow   src/app.py  (Flask route /recommend):                     *)
(*     get_gemini_diet_recommendation and the parser inside recommend.     *)
(*                                                                         *)
(* Numbers with decimals are kept as integers in hundredths: bmi = 2490    *)
(* is 24.90 and dpf = 30 is 0.30.  Text is a sequence of characters; a     *)
(* section keyword is one element of such a sequence and counts with its   *)
(* real length wherever the code measures a length.                        *)
(***************************************************************************)
EXTENDS Integers, Sequences, FiniteSets, TLC

VARIABLES
    \* ---- risk flow ------------------------------------------------------
    model_file,          \* diabetes_model.pkl is on disk
    scaler_file,         \* diabetes_scaler.pkl is on disk
    cache,               \* st.cache_resource entry of load_model_and_scaler
    loads,               \* number of times the body of load_model_and_scaler ran
    risk_pc,             \* position of the script run: idle, predict, render, shown
    profile,             \* the eight number_input values the button branch runs with
    prediction,          \* first value returned by predict_diabetes
    probability,         \* second value returned by predict_diabetes
    risk_factors,        \* analyze_risk_factors(...)[0]
    protective_factors,  \* analyze_risk_factors(...)[1]
    recommendations,     \* get_lifestyle_recommendations(...)
    calls,               \* functions entered during the run
    screen,              \* what the page shows after the run
    \* ---- diet flow ------------------------------------------------------
    diet_pc,             \* position inside the request
    gemini_raised,       \* generate_content raised in this request
    gemini_result,       \* the document handed to the parser
    restaurant_names,
    breakfast_names,
    dinner_names,
    workout_names,
    doc_shape,           \* how the document of this request was drawn
    stages,              \* parser stages that ran in this request, in order
    extracted,           \* the four lists as they were before default substitution
    page,                \* template rendered and the lists handed to it
    \* ---- direct calls of the two pure functions --------------------------
    analyze_calls,       \* calls of analyze_risk_factors made so far, with results
    catalogue_calls,     \* calls of get_lifestyle_recommendations, with results
    \* ---- several browser sessions on the risk page ------------------------
    sessions             \* per session: position and locals of its script run

risk_vars == <<model_file, scaler_file, cache, loads, risk_pc, profile, prediction,
               probability, risk_factors, protective_factors, recommendations,
               calls, screen>>

diet_vars == <<diet_pc, gemini_raised, gemini_result, restaurant_names,
               breakfast_names, dinner_names, workout_names, doc_shape, stages,
               extracted, page>>

call_vars == <<analyze_calls, catalogue_calls>>

session_vars == <<sessions>>

vars == <<risk_vars, diet_vars, call_vars, session_vars>>

\* Python's None is the empty tuple; a value v that may be None is <<v>>.
None == <<>>
Some(v) == <<v>>

(***************************************************************************)
(* RISK FLOW                                                               *)
(***************************************************************************)

Entry(attr, label, value) == [attr |-> attr, label |-> label, value |-> value]

\* One operator per attribute: <<appended to risk_factors, appended to
\* protective_factors>> by that attribute's if/elif chain.

\* glucose_band with the first threshold read as "at least 140".
glucose_band_inclusive(glucose) ==
    IF glucose >= 140 THEN <<(<<Entry("glucose", "High Glucose Level", glucose)>>), <<>> >>
    ELSE IF glucose > 126 THEN <<(<<Entry("glucose", "Elevated Glucose", glucose)>>), <<>> >>
    ELSE IF glucose < 100 THEN << <<>>, (<<Entry("glucose", "Normal Glucose", glucose)>>) >>
    ELSE << <<>>, <<>> >>

glucose_band(glucose) ==
    IF glucose > 140 THEN <<(<<Entry("glucose", "High Glucose Level", glucose)>>), <<>> >>
    ELSE IF glucose > 126 THEN <<(<<Entry("glucose", "Elevated Glucose", glucose)>>), <<>> >>
    ELSE IF glucose < 100 THEN << <<>>, (<<Entry("glucose", "Normal Glucose", glucose)>>) >>
    ELSE << <<>>, <<>> >>

bmi_band(bmi) ==
    IF bmi > 3000 THEN <<(<<Entry("bmi", "Obesity", bmi)>>), <<>> >>
    ELSE IF bmi > 2500 THEN <<(<<Entry("bmi", "Overweight", bmi)>>), <<>> >>
    ELSE IF bmi >= 1850 /\ bmi <= 2490 THEN << <<>>, (<<Entry("bmi", "Healthy Weight", bmi)>>) >>
    ELSE << <<>>, <<>> >>

\* age_band with two independent ifs whose ranges overlap (the young-age test
\* written as "age < 55").
age_band_overlapping(age) ==
    << (IF age > 45 THEN <<Entry("age", "Advanced Age", age)>> ELSE <<>>),
       (IF age < 55 THEN <<Entry("age", "Young Age", age)>> ELSE <<>>) >>

age_band(age) ==
    IF age > 45 THEN <<(<<Entry("age", "Advanced Age", age)>>), <<>> >>
    ELSE IF age < 35 THEN << <<>>, (<<Entry("age", "Young Age", age)>>) >>
    ELSE << <<>>, <<>> >>

pregnancies_band(pregnancies) ==
    IF pregnancies > 4
    THEN <<(<<Entry("pregnancies", "Multiple Pregnancies", pregnancies)>>), <<>> >>
    ELSE IF pregnancies = 0
    THEN << <<>>, (<<Entry("pregnancies", "No Previous Pregnancies", 0)>>) >>
    ELSE << <<>>, <<>> >>

blood_pressure_band(blood_pressure) ==
    IF blood_pressure > 90
    THEN <<(<<Entry("blood_pressure", "High Blood Pressure", blood_pressure)>>), <<>> >>
    ELSE IF blood_pressure < 80
    THEN << <<>>, (<<Entry("blood_pressure", "Normal Blood Pressure", blood_pressure)>>) >>
    ELSE << <<>>, <<>> >>

insulin_band(insulin) ==
    IF insulin > 200 THEN <<(<<Entry("insulin", "High Insulin", insulin)>>), <<>> >>
    ELSE IF insulin > 125 THEN <<(<<Entry("insulin", "Elevated Insulin", insulin)>>), <<>> >>
    ELSE IF insulin < 100 THEN << <<>>, (<<Entry("insulin", "Normal Insulin", insulin)>>) >>
    ELSE << <<>>, <<>> >>

dpf_band(dpf) ==
    IF dpf > 100 THEN <<(<<Entry("dpf", "High Genetic Risk", dpf)>>), <<>> >>
    ELSE IF dpf > 50 THEN <<(<<Entry("dpf", "Moderate Genetic Risk", dpf)>>), <<>> >>
    ELSE IF dpf < 30 THEN << <<>>, (<<Entry("dpf", "Low Genetic Risk", dpf)>>) >>
    ELSE << <<>>, <<>> >>

skin_thickness_band(skin_thickness) ==
    IF skin_thickness > 35
    THEN <<(<<Entry("skin_thickness", "Thick Skin Fold", skin_thickness)>>), <<>> >>
    ELSE IF skin_thickness < 20
    THEN << <<>>, (<<Entry("skin_thickness", "Normal Skin Thickness", skin_thickness)>>) >>
    ELSE << <<>>, <<>> >>

\* BandsInOrder with the BMI chain moved in front of the glucose chain.
BandsInOrder_bmi_first(p) ==
    << bmi_band(p.bmi), glucose_band(p.glucose), age_band(p.age),
       pregnancies_band(p.pregnancies), blood_pressure_band(p.blood_pressure),
       insulin_band(p.insulin), dpf_band(p.dpf), skin_thickness_band(p.skin_thickness) >>

\* The eight chains in the order the function runs them.
BandsInOrder(p) ==
    << glucose_band(p.glucose), bmi_band(p.bmi), age_band(p.age),
       pregnancies_band(p.pregnancies), blood_pressure_band(p.blood_pressure),
       insulin_band(p.insulin), dpf_band(p.dpf), skin_thickness_band(p.skin_thickness) >>

RECURSIVE Flatten(_)
Flatten(ss) == IF ss = <<>> THEN <<>> ELSE Head(ss) \o Flatten(Tail(ss))

\* analyze_risk_factors with its two lists created at module level instead of
\* inside the function: the entries of the earlier call are still in them.
analyze_risk_factors_module_lists(p) ==
    LET bands == BandsInOrder(p)
        kept == IF analyze_calls = <<>>
                THEN << <<>>, <<>> >>
                ELSE analyze_calls[Len(analyze_calls)].out
    IN  << kept[1] \o Flatten([i \in 1..Len(bands) |-> bands[i][1]]),
           kept[2] \o Flatten([i \in 1..Len(bands) |-> bands[i][2]]) >>

analyze_risk_factors(p) ==
    LET bands == BandsInOrder(p)
    IN  << Flatten([i \in 1..Len(bands) |-> bands[i][1]]),
           Flatten([i \in 1..Len(bands) |-> bands[i][2]]) >>

UrgentCare == <<"Immediate Action", "Monitoring", "Medication">>

StandardCatalogue ==
    <<"Diet Plan", "Portion Control", "Meal Timing",
      "Cardio Exercise", "Strength Training", "Daily Activity",
      "Sleep Quality", "Stress Management", "Hydration">>

\* get_lifestyle_recommendations with the urgent-care items also given when
\* the risk-factor list is not empty.
get_lifestyle_recommendations_by_factors(label, factors) ==
    (IF label = 1 \/ factors # <<>> THEN UrgentCare ELSE <<>>) \o StandardCatalogue

get_lifestyle_recommendations(label, factors) ==
    (IF label = 1 THEN UrgentCare ELSE <<>>) \o StandardCatalogue

\* ---- inputs -------------------------------------------------------------

\* The profile of the worked example of the specification.
ExampleProfile ==
    [pregnancies |-> 0, glucose |-> 150, blood_pressure |-> 70, skin_thickness |-> 18,
     insulin |-> 80, bmi |-> 2200, dpf |-> 20, age |-> 28]

\* Values on both sides of every threshold of an attribute.
EdgeValues ==
    [glucose        |-> {0, 99, 100, 126, 127, 140, 141, 300},
     bmi            |-> {1000, 1849, 1850, 2490, 2495, 2500, 2501, 3000, 3001, 7000},
     age            |-> {18, 34, 35, 45, 46, 120},
     pregnancies    |-> {0, 1, 4, 5, 20},
     blood_pressure |-> {0, 79, 80, 90, 91, 200},
     insulin        |-> {0, 99, 100, 125, 126, 200, 201, 1000},
     dpf            |-> {0, 29, 30, 50, 51, 100, 101, 300},
     skin_thickness |-> {0, 19, 20, 35, 36, 100}]

\* One value of each attribute in its risk band, its untagged band and its
\* protective band.
BandValues ==
    [glucose        |-> {150, 110, 90},
     bmi            |-> {3200, 2500, 2200},
     age            |-> {50, 40, 28},
     pregnancies    |-> {6, 2, 0},
     blood_pressure |-> {95, 85, 70},
     insulin        |-> {130, 110, 80},
     dpf            |-> {60, 40, 20},
     skin_thickness |-> {40, 25, 18}]

Attributes == DOMAIN ExampleProfile

Profiles ==
    [pregnancies : BandValues.pregnancies, glucose : BandValues.glucose,
     blood_pressure : BandValues.blood_pressure,
     skin_thickness : BandValues.skin_thickness, insulin : BandValues.insulin,
     bmi : BandValues.bmi, dpf : BandValues.dpf, age : BandValues.age]
    \cup UNION { { [ExampleProfile EXCEPT ![a] = v] : v \in EdgeValues[a] } : a \in Attributes }

\* What the external scorer may answer: a label and the pair of class
\* probabilities, in percent.
Labels == {0, 1}
Probabilities == { <<80, 20>>, <<20, 80>> }

\* ---- the cached loader ---------------------------------------------------

\* load_body with only the model's load inside the try.
load_body_model_only(mf, sf) ==
    IF mf
    THEN [model |-> Some("model"), scaler |-> Some("scaler"), error |-> FALSE]
    ELSE [model |-> None, scaler |-> None, error |-> TRUE]

\* The body of load_model_and_scaler: joblib.load of the model, then of the
\* scaler; FileNotFoundError from either gives st.error and (None, None).
load_body(mf, sf) ==
    IF mf /\ sf
    THEN [model |-> Some("model"), scaler |-> Some("scaler"), error |-> FALSE]
    ELSE [model |-> None, scaler |-> None, error |-> TRUE]

\* cache_miss without the decorator: every call is a miss.
cache_miss_always(c) == TRUE

\* st.cache_resource: a call is a miss while no entry has been stored.
cache_miss(c) == c = <<>>

\* load_model_and_scaler under st.cache_resource: the body runs when the
\* cache holds no entry; its return value, with the st.error element it
\* emitted, is stored and replayed afterwards.
load_model_and_scaler(c, mf, sf) ==
    IF cache_miss(c) THEN load_body(mf, sf) ELSE c[1]

\* ---- the script run started by the Analyze button ------------------------

\* shown_recommendations with the loop run over the whole list.
shown_recommendations_all(recs) == recs

\* recommendations[:8], the entries the recommendations section loops over.
shown_recommendations(recs) == SubSeq(recs, 1, IF Len(recs) < 8 THEN Len(recs) ELSE 8)

BlankScreen ==
    [error |-> FALSE, label |-> None, probability |-> None,
     risk |-> <<>>, protective |-> <<>>, recommendations |-> <<>>]

RiskInit ==
    /\ model_file \in BOOLEAN
    /\ scaler_file \in BOOLEAN
    /\ cache = <<>>
    /\ loads = 0
    /\ risk_pc = "idle"
    /\ profile = ExampleProfile
    /\ prediction = None
    /\ probability = None
    /\ risk_factors = <<>>
    /\ protective_factors = <<>>
    /\ recommendations = <<>>
    /\ calls = {}
    /\ screen = BlankScreen

\* st.button returns True: the script runs its button branch with the widgets'
\* values.
ClickAnalyze ==
    /\ risk_pc = "idle"
    /\ \E p \in Profiles : profile' = p
    /\ risk_pc' = "predict"
    /\ UNCHANGED <<model_file, scaler_file, cache, loads, prediction, probability,
                   risk_factors, protective_factors, recommendations, calls, screen,
                   diet_vars, call_vars, session_vars>>

\* predict_diabetes(...)
PredictDiabetes ==
    /\ risk_pc = "predict"
    /\ LET pair == load_model_and_scaler(cache, model_file, scaler_file)
       IN  /\ cache' = <<pair>>
           /\ loads' = IF cache_miss(cache) THEN loads + 1 ELSE loads
           /\ screen' = [screen EXCEPT !.error = pair.error]
           /\ IF pair.model = None \/ pair.scaler = None
              THEN /\ prediction' = None
                   /\ probability' = None
                   /\ calls' = calls \cup {"load_model_and_scaler"}
              ELSE /\ \E l \in Labels : prediction' = Some(l)
                   /\ \E pr \in Probabilities : probability' = pr
                   /\ calls' = calls \cup {"load_model_and_scaler", "scaler.transform",
                                           "model.predict", "model.predict_proba"}
    /\ risk_pc' = "render"
    /\ UNCHANGED <<model_file, scaler_file, profile, risk_factors, protective_factors,
                   recommendations, diet_vars, call_vars, session_vars>>

\* The rest of the button branch of main: the explainer, the catalogue and
\* the result sections, all under "prediction is not None and probability is
\* not None"; the recommendations section shows recommendations[:8].
RenderResult ==
    /\ risk_pc = "render"
    /\ IF prediction # None /\ probability # None
       THEN LET factors == analyze_risk_factors(profile)
                recs == get_lifestyle_recommendations(prediction[1], factors[1])
            IN  /\ risk_factors' = factors[1]
                /\ protective_factors' = factors[2]
                /\ recommendations' = recs
                /\ calls' = calls \cup {"analyze_risk_factors",
                                        "get_lifestyle_recommendations"}
                /\ screen' = [screen EXCEPT
                                !.label = prediction,
                                !.probability = probability,
                                !.risk = factors[1],
                                !.protective = factors[2],
                                !.recommendations = shown_recommendations(recs)]
       ELSE UNCHANGED <<risk_factors, protective_factors, recommendations, calls, screen>>
    /\ risk_pc' = "shown"
    /\ UNCHANGED <<model_file, scaler_file, cache, loads, profile, prediction,
                   probability, diet_vars, call_vars, session_vars>>

\* Any later interaction with the page starts a new script run: the locals of
\* the finished run are gone and the result sections are not drawn until the
\* button branch runs again.
Rerun ==
    /\ risk_pc = "shown"
    /\ risk_pc' = "idle"
    /\ profile' = ExampleProfile
    /\ prediction' = None
    /\ probability' = None
    /\ risk_factors' = <<>>
    /\ protective_factors' = <<>>
    /\ recommendations' = <<>>
    /\ calls' = {}
    /\ screen' = BlankScreen
    /\ UNCHANGED <<model_file, scaler_file, cache, loads, diet_vars, call_vars, session_vars>>

NextRisk == ClickAnalyze \/ PredictDiabetes \/ RenderResult \/ Rerun

\* ---- the two pure functions called directly -------------------------------

\* How many calls of each function are followed.
MaxCalls == 3

\* Arguments of the direct calls: the example profile, the same with a
\* protective glucose value, and a profile with every attribute in a risk band.
CallProfiles ==
    { ExampleProfile,
      [ExampleProfile EXCEPT !.glucose = 90],
      [pregnancies |-> 6, glucose |-> 130, blood_pressure |-> 95, skin_thickness |-> 40,
       insulin |-> 250, bmi |-> 3200, dpf |-> 120, age |-> 50] }

CallFactorLists == { <<>>, <<Entry("glucose", "High Glucose Level", 150)>> }

CallsInit ==
    /\ analyze_calls = <<>>
    /\ catalogue_calls = <<>>

\* analyze_risk_factors(...) called with a profile; the call and what it
\* returned are written down.
CallAnalyze ==
    /\ Len(analyze_calls) < MaxCalls
    /\ \E p \in CallProfiles :
          analyze_calls' = Append(analyze_calls,
                                  [profile |-> p, out |-> analyze_risk_factors(p)])
    /\ UNCHANGED <<catalogue_calls, risk_vars, diet_vars, session_vars>>

\* get_lifestyle_recommendations(prediction, risk_factors) called likewise.
CallCatalogue ==
    /\ Len(catalogue_calls) < MaxCalls
    /\ \E label \in Labels, factors \in CallFactorLists :
          catalogue_calls' =
              Append(catalogue_calls,
                     [label |-> label, factors |-> factors,
                      out |-> get_lifestyle_recommendations(label, factors)])
    /\ UNCHANGED <<analyze_calls, risk_vars, diet_vars, session_vars>>

NextCalls == CallAnalyze \/ CallCatalogue

\* ---- several sessions sharing the cached loader ---------------------------

\* Every browser session runs the script in a thread of its own; the threads
\* of one process share the st.cache_resource entry and nothing else.
NumSessions == 2

Sessions == 1..NumSessions

\* The locals of a script run before the button branch.
IdleSession ==
    [pc |-> "idle", profile |-> ExampleProfile, pair |-> None, prediction |-> None]

SessionsInit == sessions = [s \in Sessions |-> IdleSession]

SessionStep(s, locals) ==
    sessions' = [sessions EXCEPT ![s] = locals]

\* The button of session s: predict_diabetes is entered with the widgets' values.
SessionClick(s) ==
    /\ sessions[s].pc = "idle"
    /\ \E p \in CallProfiles :
          SessionStep(s, [sessions[s] EXCEPT !.pc = "call", !.profile = p])
    /\ UNCHANGED <<risk_vars, diet_vars, call_vars>>

\* load_model_and_scaler() in session s: the decorator looks the entry up; a
\* hit returns the stored pair, a miss goes on to fill the entry.
SessionLookup(s) ==
    /\ sessions[s].pc = "call"
    /\ IF cache_miss(cache)
       THEN SessionStep(s, [sessions[s] EXCEPT !.pc = "miss"])
       ELSE SessionStep(s, [sessions[s] EXCEPT !.pc = "loaded", !.pair = Some(cache[1])])
    /\ UNCHANGED <<risk_vars, diet_vars, call_vars>>

\* The decorator fills a missing entry while holding its lock: it looks the
\* entry up once more, runs the body if it is still missing, stores what the
\* body returned and returns it.  The lock makes this one step.
SessionCompute(s) ==
    /\ sessions[s].pc = "miss"
    /\ LET pair == load_model_and_scaler(cache, model_file, scaler_file)
       IN  /\ cache' = <<pair>>
           /\ loads' = IF cache_miss(cache) THEN loads + 1 ELSE loads
           /\ SessionStep(s, [sessions[s] EXCEPT !.pc = "loaded", !.pair = Some(pair)])
    /\ UNCHANGED <<model_file, scaler_file, risk_pc, profile, prediction, probability,
                   risk_factors, protective_factors, recommendations, calls, screen,
                   diet_vars, call_vars>>

\* The rest of predict_diabetes in session s.
SessionPredict(s) ==
    /\ sessions[s].pc = "loaded"
    /\ LET pair == sessions[s].pair[1]
       IN  IF pair.model = None \/ pair.scaler = None
           THEN SessionStep(s, [sessions[s] EXCEPT !.pc = "shown", !.prediction = None])
           ELSE \E l \in Labels :
                   SessionStep(s, [sessions[s] EXCEPT !.pc = "shown",
                                                      !.prediction = Some(l)])
    /\ UNCHANGED <<risk_vars, diet_vars, call_vars>>

\* The next interaction of session s: a new script run with fresh locals.
SessionRerun(s) ==
    /\ sessions[s].pc = "shown"
    /\ SessionStep(s, IdleSession)
    /\ UNCHANGED <<risk_vars, diet_vars, call_vars>>

NextSessions ==
    \E s \in Sessions :
        \/ SessionClick(s)
        \/ SessionLookup(s)
        \/ SessionCompute(s)
        \/ SessionPredict(s)
        \/ SessionRerun(s)

(***************************************************************************)
(* DIET FLOW: text                                                         *)
(*                                                                         *)
(* A text is a sequence of characters: "*", "\n", " ", digits, ".", "-",   *)
(* "bullet" (the glyph U+2022), letters.  The section keywords are single  *)
(* elements, capitalised as the prompt asks for them ("Dinner") or in      *)
(* lower case ("dinner"); no text spells a keyword out of single letters.  *)
(***************************************************************************)

CapitalKeywords == {"Restaurant", "Breakfast", "Dinner", "Workout"}
LowerKeywords == {"restaurant", "breakfast", "dinner", "workout"}
DigitChars == {"0", "1", "2", "3", "4", "5", "6", "7", "8", "9"}
SpaceChars == {" ", "\n", "\t"}
BulletChars == {"-", "bullet"}

\* len() of one element.
CharLen(c) ==
    CASE c \in {"Restaurant", "restaurant"} -> 10
      [] c \in {"Breakfast", "breakfast"} -> 9
      [] c \in {"Dinner", "dinner"} -> 6
      [] c \in {"Workout", "workout"} -> 7
      [] OTHER -> 1

RECURSIVE StrLen(_)
StrLen(s) == IF s = <<>> THEN 0 ELSE CharLen(Head(s)) + StrLen(Tail(s))

\* str.lower() of one element.
LowerChar(c) ==
    CASE c = "Restaurant" -> "restaurant"
      [] c = "Breakfast" -> "breakfast"
      [] c = "Dinner" -> "dinner"
      [] c = "Workout" -> "workout"
      [] c = "E" -> "e"
      [] OTHER -> c

Lower(s) == [i \in 1..Len(s) |-> LowerChar(s[i])]

\* sub in s
Contains(s, sub) ==
    \E i \in 1..(Len(s) - Len(sub) + 1) :
        s[i] = sub[1] /\ SubSeq(s, i, i + Len(sub) - 1) = sub

\* s.startswith(pre)
StartsWith(s, pre) == Len(s) >= Len(pre) /\ SubSeq(s, 1, Len(pre)) = pre

RECURSIVE LStrip(_)
LStrip(s) == IF s # <<>> /\ Head(s) \in SpaceChars THEN LStrip(Tail(s)) ELSE s

RECURSIVE RStrip(_)
RStrip(s) ==
    IF s # <<>> /\ s[Len(s)] \in SpaceChars THEN RStrip(SubSeq(s, 1, Len(s) - 1)) ELSE s

\* s.strip()
Strip(s) == RStrip(LStrip(s))

\* s.find(sep) + 1: the first place where sep occurs in s, or 0.
Find(s, sep) ==
    LET hits == {i \in 1..(Len(s) - Len(sep) + 1) :
                    s[i] = sep[1] /\ SubSeq(s, i, i + Len(sep) - 1) = sep}
    IN  IF hits = {} THEN 0 ELSE CHOOSE h \in hits : \A g \in hits : h <= g

\* s.split(sep): the pieces between the non-overlapping occurrences of sep,
\* found left to right.
RECURSIVE Split(_, _)
Split(s, sep) ==
    LET i == Find(s, sep)
    IN  IF i = 0 THEN <<s>>
        ELSE <<SubSeq(s, 1, i - 1)>> \o Split(SubSeq(s, i + Len(sep), Len(s)), sep)

\* Number of leading characters of s that are digits.
RECURSIVE LeadingDigits(_)
LeadingDigits(s) ==
    IF s # <<>> /\ Head(s) \in DigitChars THEN 1 + LeadingDigits(Tail(s)) ELSE 0

\* re.sub(r'^\d+\.\s*', '', line)
RemoveNumber(line) ==
    LET k == LeadingDigits(line)
    IN  IF k >= 1 /\ Len(line) > k /\ line[k + 1] = "."
        THEN LStrip(SubSeq(line, k + 2, Len(line)))
        ELSE line

\* re.sub(r'^[-bullet]\s*', '', item)
RemoveBullet(item) ==
    IF item # <<>> /\ Head(item) \in BulletChars THEN LStrip(Tail(item)) ELSE item

\* CleanItem with the statement that removes the bullet left out.
CleanItem_number_only(line) == Strip(RemoveNumber(line))

\* The three cleaning statements applied to an accepted line.
CleanItem(line) == Strip(RemoveBullet(RemoveNumber(line)))

(***************************************************************************)
(* DIET FLOW: the parser of recommend()                                    *)
(***************************************************************************)

\* The four lists, keyed by the value current_section takes for each.
EmptyLists == [restaurants |-> <<>>, breakfast |-> <<>>, dinner |-> <<>>, workouts |-> <<>>]

\* section_heading with the tests made on section.lower(), as the fallback
\* scan makes them.
section_heading_any_case(section) ==
    LET low == Lower(section)
    IN  IF Contains(low, <<"restaurant">>) THEN "restaurants"
        ELSE IF Contains(low, <<"breakfast">>) THEN "breakfast"
        ELSE IF Contains(low, <<"dinner">>) THEN "dinner"
        ELSE IF Contains(low, <<"workout">>) THEN "workouts"
        ELSE ""

\* The if/elif chain at the top of the loop over sections: the section a
\* chunk switches to, or "" when it switches to none.
section_heading(section) ==
    IF Contains(section, <<"Restaurant", "s", ":">>) \/ Contains(section, <<"Restaurant">>)
    THEN "restaurants"
    ELSE IF Contains(section, <<"Breakfast", ":">>) \/ Contains(section, <<"Breakfast">>)
    THEN "breakfast"
    ELSE IF Contains(section, <<"Dinner", ":">>) \/ Contains(section, <<"Dinner">>)
    THEN "dinner"
    ELSE IF Contains(section, <<"Workout", "s", ":">>) \/ Contains(section, <<"Workout">>)
    THEN "workouts"
    ELSE ""

\* The condition under which the primary pass takes a stripped line as an item.
accepts_line(line) ==
    /\ line # <<>>
    /\ \/ \E d \in {"1", "2", "3", "4", "5", "6"} : StartsWith(line, <<d, ".">>)
       \/ \E b \in BulletChars : StartsWith(line, <<b>>)
       \/ (~StartsWith(line, <<"*", "*">>) /\ StrLen(line) > 2)

\* The inner loop over the lines of one chunk: the items it collects.
RECURSIVE collect_items(_)
collect_items(lines) ==
    IF lines = <<>> THEN <<>>
    ELSE LET line == Strip(Head(lines))
             item == CleanItem(line)
         IN  (IF accepts_line(line) /\ item # <<>> THEN <<item>> ELSE <<>>)
             \o collect_items(Tail(lines))

\* The loop over gemini_result.split('**').
RECURSIVE primary_pass(_, _, _)
primary_pass(sections, current_section, lists) ==
    IF sections = <<>> THEN lists
    ELSE LET section == Head(sections)
             heading == section_heading(section)
         IN  IF heading # ""
             THEN primary_pass(Tail(sections), heading, lists)
             ELSE IF current_section # "" /\ Strip(section) # <<>>
             THEN LET items == collect_items(Split(Strip(section), <<"\n">>))
                  IN  primary_pass(Tail(sections), current_section,
                          [lists EXCEPT ![current_section] = @ \o items])
             ELSE primary_pass(Tail(sections), current_section, lists)

\* "if item and len(current_list) < 6": the one limit the fallback scan
\* applies, whichever list is current.
FallbackLimit == 6

\* The loop over gemini_result.split('\n') of the fallback scan;
\* current_list is "" while it is None.
RECURSIVE fallback_scan(_, _, _)
fallback_scan(lines, current_list, lists) ==
    IF lines = <<>> THEN lists
    ELSE LET line == Strip(Head(lines))
             low == Lower(line)
             item == CleanItem(line)
         IN  IF Contains(low, <<"restaurant">>)
             THEN fallback_scan(Tail(lines), "restaurants", lists)
             ELSE IF Contains(low, <<"breakfast">>)
             THEN fallback_scan(Tail(lines), "breakfast", lists)
             ELSE IF Contains(low, <<"dinner">>)
             THEN fallback_scan(Tail(lines), "dinner", lists)
             ELSE IF Contains(low, <<"workout">>)
             THEN fallback_scan(Tail(lines), "workouts", lists)
             ELSE IF line # <<>> /\ current_list # "" /\ ~StartsWith(line, <<"*", "*">>)
                     /\ item # <<>> /\ Len(lists[current_list]) < FallbackLimit
             THEN fallback_scan(Tail(lines), current_list,
                      [lists EXCEPT ![current_list] = Append(@, item)])
             ELSE fallback_scan(Tail(lines), current_list, lists)

\* The hardcoded lists of "Ensure we have some data"; each name is one element.
DefaultLists ==
    [restaurants |-> << <<"Local Health Restaurant">>, <<"Fresh Food Cafe">>,
                        <<"Nutrition Hub">>, <<"Healthy Bites">>,
                        <<"Green Garden Restaurant">>, <<"Fit Food Corner">> >>,
     breakfast   |-> << <<"Oatmeal with fruits">>, <<"Greek yogurt with nuts">>,
                        <<"Whole grain toast">>, <<"Smoothie bowl">>,
                        <<"Egg white omelet">>, <<"Fresh fruit salad">> >>,
     dinner      |-> << <<"Grilled chicken salad">>, <<"Vegetable stir-fry">>,
                        <<"Quinoa bowl">>, <<"Fish with vegetables">>, <<"Lentil soup">> >>,
     workouts    |-> << <<"Morning walk">>, <<"Light jogging">>, <<"Basic stretching">>,
                        <<"Yoga session">>, <<"Bodyweight exercises">>, <<"Swimming">> >>]

\* or_default with the "if not dinner_names" statement left out.
or_default_skip_dinner(names, key) ==
    IF names = <<>> /\ key # "dinner" THEN DefaultLists[key] ELSE names

\* or_default topping a short list up with the defaults behind its length.
or_default_top_up(names, key) ==
    names \o SubSeq(DefaultLists[key], Len(names) + 1, Len(DefaultLists[key]))

\* or_default with the substitution left out.
or_default_never(names, key) == names

\* "if not <list>: <list> = [...]"
or_default(names, key) == IF names = <<>> THEN DefaultLists[key] ELSE names

\* str(e) is put behind this prefix.
ErrorPrefix ==
    <<"E", "r", "r", "o", "r", " ", "g", "e", "n", "e", "r", "a", "t", "i", "n", "g", " ",
      "r", "e", "c", "o", "m", "m", "e", "n", "d", "a", "t", "i", "o", "n", "s", ":", " ">>

(***************************************************************************)
(* DIET FLOW: the documents the text-generation call may return            *)
(***************************************************************************)

\* Bounds of the document families.
MaxN == 7        \* numbered lines per section of a well-formed document
MaxDocLen == 5   \* characters of an arbitrary document
MaxItems == 7    \* lines under the heading of a one-heading document
MaxMsgLen == 3   \* characters of an error message

SectionOrder == <<"restaurants", "breakfast", "dinner", "workouts">>
Sections == {"restaurants", "breakfast", "dinner", "workouts"}

\* The headings of the format the prompt asks for, without the asterisks.
SectionTitle ==
    [restaurants |-> <<"Restaurant", "s", ":">>, breakfast |-> <<"Breakfast", ":">>,
     dinner |-> <<"Dinner", ":">>, workouts |-> <<"Workout", "s", ":">>]

LowerTitle == [k \in Sections |-> Lower(SectionTitle[k])]

\* The item texts of the prompt's own example lines ("1. Restaurant name 1").
PromptItemText ==
    [restaurants |-> <<"Restaurant", " ", "n", "a", "m", "e">>,
     breakfast |-> <<"Breakfast", " ", "i", "t", "e", "m">>,
     dinner |-> <<"Dinner", " ", "i", "t", "e", "m">>,
     workouts |-> <<"Workout", " ", "e", "x", "e", "r", "c", "i", "s", "e">>]

\* Item texts of a section: one without a keyword, the prompt's own, one with
\* the keyword in lower case.
ItemTexts(k) ==
    { <<"a", "b">>, PromptItemText[k], <<"m", "y", " ">> \o Lower(<<PromptItemText[k][1]>>) }

DigitOf == <<"1", "2", "3", "4", "5", "6", "7", "8", "9">>

\* str(i) for 1 <= i <= 99
Digits(i) ==
    IF i < 10 THEN <<DigitOf[i]>>
    ELSE <<DigitOf[i \div 10], (IF i % 10 = 0 THEN "0" ELSE DigitOf[i % 10])>>

RECURSIVE Join(_, _)
Join(pieces, sep) ==
    IF pieces = <<>> THEN <<>>
    ELSE IF Len(pieces) = 1 THEN pieces[1]
    ELSE pieces[1] \o sep \o Join(Tail(pieces), sep)

\* The i-th item of a section whose items have the text t.
ItemOf(t, i) == t \o <<" ">> \o Digits(i)

\* "**Title**" and n lines "i. <item i>".
WellFormedSection(k, t, n) ==
    <<"*", "*">> \o SectionTitle[k] \o <<"*", "*", "\n">>
    \o Join([i \in 1..n |-> Digits(i) \o <<".", " ">> \o ItemOf(t, i)], <<"\n">>)

\* The document in the format of the prompt: the four sections in order,
\* n numbered lines each, a blank line between sections.
WellFormedDocument(n, texts) ==
    Join([j \in 1..4 |-> WellFormedSection(SectionOrder[j], texts[SectionOrder[j]], n)],
         <<"\n", "\n">>)

WellFormedShapes ==
    { [family |-> "well-formed", n |-> n, texts |-> t] :
        n \in 1..MaxN,
        t \in [restaurants : ItemTexts("restaurants"), breakfast : ItemTexts("breakfast"),
               dinner : ItemTexts("dinner"), workouts : ItemTexts("workouts")] }

\* Any text of at most MaxDocLen characters over this alphabet.
Alphabet == {"*", "\n", "-", "a", "Dinner", "dinner"}

TextsUpTo(m) == UNION { [1..n -> Alphabet] : n \in 0..m }

\* One heading and lines under it.
HeadingStyles == {"bold", "plain", "lower"}
LineStyles == {"numbered", "bullet", "short", "long", "nested"}

HeadingLine(k, hs) ==
    CASE hs = "bold" -> <<"*", "*">> \o SectionTitle[k] \o <<"*", "*">>
      [] hs = "plain" -> SectionTitle[k]
      [] hs = "lower" -> LowerTitle[k]

BlockItem(i) == <<"a">> \o Digits(i)

BlockLine(ls, i) ==
    CASE ls = "numbered" -> Digits(i) \o <<".", " ">> \o BlockItem(i)
      [] ls = "bullet" -> <<"-", " ">> \o BlockItem(i)
      [] ls = "short" -> BlockItem(i)
      [] ls = "long" -> <<"x">> \o BlockItem(i)
      [] ls = "nested" -> <<"-", " ">> \o Digits(i) \o <<".", " ">> \o BlockItem(i)

Block(b) ==
    Join(<<HeadingLine(b.section, b.heading)>> \o [i \in 1..b.n |-> BlockLine(b.lines, i)],
         <<"\n">>)

BlocksOf(counts) ==
    [section : Sections, heading : HeadingStyles, lines : LineStyles, n : counts]

BlockShapes ==
    { [family |-> "blocks", blocks |-> <<b>>] : b \in BlocksOf(0..MaxItems) }
    \cup { [family |-> "blocks", blocks |-> <<b1, b2>>] : b1 \in BlocksOf({1}), b2 \in BlocksOf({1}) }

ArbitraryShapes == { [family |-> "arbitrary", text |-> t] : t \in TextsUpTo(MaxDocLen) }

\* The text of a document of a given shape.
DocumentOf(shape) ==
    CASE shape.family = "well-formed" -> WellFormedDocument(shape.n, shape.texts)
      [] shape.family = "blocks" ->
            Join([i \in 1..Len(shape.blocks) |-> Block(shape.blocks[i])], <<"\n">>)
      [] shape.family = "arbitrary" -> shape.text

ErrorMessages == TextsUpTo(MaxMsgLen)

(***************************************************************************)
(* DIET FLOW: the request                                                  *)
(***************************************************************************)

NoPage ==
    [template |-> "", restaurant_names |-> <<>>, breakfast_names |-> <<>>,
     dinner_names |-> <<>>, workout_names |-> <<>>]

IndexPage == [NoPage EXCEPT !.template = "index.html"]

NoShape == [family |-> "none"]

DietInit ==
    /\ diet_pc = "idle"
    /\ gemini_raised = FALSE
    /\ gemini_result = <<>>
    /\ restaurant_names = <<>>
    /\ breakfast_names = <<>>
    /\ dinner_names = <<>>
    /\ workout_names = <<>>
    /\ doc_shape = NoShape
    /\ stages = <<>>
    /\ extracted = EmptyLists
    /\ page = NoPage

\* The locals of recommend() at its entry.
FreshLocals ==
    /\ gemini_raised' = FALSE
    /\ gemini_result' = <<>>
    /\ restaurant_names' = <<>>
    /\ breakfast_names' = <<>>
    /\ dinner_names' = <<>>
    /\ workout_names' = <<>>
    /\ doc_shape' = NoShape
    /\ stages' = <<>>
    /\ extracted' = EmptyLists

\* request.method == 'GET'
Get ==
    /\ diet_pc \in {"idle", "done"}
    /\ FreshLocals
    /\ page' = IndexPage
    /\ diet_pc' = "done"
    /\ UNCHANGED <<risk_vars, call_vars, session_vars>>

\* A POST of the form: the fields are read and the text-generation call is made.
Post ==
    /\ diet_pc \in {"idle", "done"}
    /\ FreshLocals
    /\ page' = NoPage
    /\ diet_pc' = "generate"
    /\ UNCHANGED <<risk_vars, call_vars, session_vars>>

Generated(shape, text, raised) ==
    /\ doc_shape' = shape
    /\ gemini_result' = text
    /\ gemini_raised' = raised
    /\ diet_pc' = "primary"
    /\ UNCHANGED <<restaurant_names, breakfast_names, dinner_names, workout_names,
                   stages, extracted, page, risk_vars, call_vars, session_vars>>

\* get_gemini_diet_recommendation: generate_content returns and response.text
\* is the document.
GenerateContent ==
    /\ diet_pc = "generate"
    /\ \/ \E shape \in WellFormedShapes : Generated(shape, DocumentOf(shape), FALSE)
       \/ \E shape \in BlockShapes : Generated(shape, DocumentOf(shape), FALSE)
       \/ \E shape \in ArbitraryShapes : Generated(shape, DocumentOf(shape), FALSE)

\* get_gemini_diet_recommendation: the call raises; the except clause returns
\* the prefix followed by str(e).
GenerateRaises ==
    /\ diet_pc = "generate"
    /\ \E msg \in ErrorMessages :
          Generated([family |-> "error", text |-> msg], ErrorPrefix \o msg, TRUE)

CurrentLists ==
    [restaurants |-> restaurant_names, breakfast |-> breakfast_names,
     dinner |-> dinner_names, workouts |-> workout_names]

SetLists(lists) ==
    /\ restaurant_names' = lists.restaurants
    /\ breakfast_names' = lists.breakfast
    /\ dinner_names' = lists.dinner
    /\ workout_names' = lists.workouts

\* AllEmpty written with all() in place of any(): true as soon as one list
\* is empty.
AnyEmpty(lists) == \E k \in Sections : lists[k] = <<>>

\* not any([restaurant_names, breakfast_names, dinner_names, workout_names])
AllEmpty(lists) == \A k \in Sections : lists[k] = <<>>

\* The section-based pass, and the test that guards the fallback scan.
PrimaryPass ==
    /\ diet_pc = "primary"
    /\ LET lists == primary_pass(Split(gemini_result, <<"*", "*">>), "", CurrentLists)
       IN  /\ SetLists(lists)
           /\ diet_pc' = IF AllEmpty(lists) THEN "fallback" ELSE "defaults"
    /\ stages' = Append(stages, "primary")
    /\ UNCHANGED <<gemini_raised, gemini_result, doc_shape, extracted, page, risk_vars, call_vars, session_vars>>

\* The line-by-line scan under "if not any([...])".
FallbackScan ==
    /\ diet_pc = "fallback"
    /\ SetLists(fallback_scan(Split(gemini_result, <<"\n">>), "", CurrentLists))
    /\ stages' = Append(stages, "fallback")
    /\ diet_pc' = "defaults"
    /\ UNCHANGED <<gemini_raised, gemini_result, doc_shape, extracted, page, risk_vars, call_vars, session_vars>>

\* "Ensure we have some data": the four "if not <list>" statements.
DefaultFill ==
    /\ diet_pc = "defaults"
    /\ extracted' = CurrentLists
    /\ SetLists([k \in Sections |-> or_default(CurrentLists[k], k)])
    /\ stages' = Append(stages, "defaults")
    /\ diet_pc' = "render"
    /\ UNCHANGED <<gemini_raised, gemini_result, doc_shape, page, risk_vars, call_vars, session_vars>>

\* render_template('result.html', ...)
RenderPage ==
    /\ diet_pc = "render"
    /\ page' = [template |-> "result.html", restaurant_names |-> restaurant_names,
                breakfast_names |-> breakfast_names, dinner_names |-> dinner_names,
                workout_names |-> workout_names]
    /\ diet_pc' = "done"
    /\ UNCHANGED <<gemini_raised, gemini_result, restaurant_names, breakfast_names,
                   dinner_names, workout_names, doc_shape, stages, extracted, risk_vars, call_vars, session_vars>>

NextDiet ==
    Get \/ Post \/ GenerateContent \/ GenerateRaises \/ PrimaryPass \/ FallbackScan
    \/ DefaultFill \/ RenderPage

(***************************************************************************)
(* Specifications                                                          *)
(***************************************************************************)

Init == RiskInit /\ DietInit /\ CallsInit /\ SessionsInit

Next == NextRisk \/ NextDiet \/ NextCalls \/ NextSessions

\* Both flows in one process.
Spec == Init /\ [][Next]_vars

\* The risk page alone (the diet route serves no request).
SpecRisk == Init /\ [][NextRisk]_vars

\* The diet route alone: the risk page is never opened, so what is on its disk
\* plays no part.
InitDiet == Init /\ model_file /\ scaler_file

SpecDiet == InitDiet /\ [][NextDiet]_vars

\* The two pure functions called in any order with any of the arguments; no
\* page is opened.
SpecCalls == InitDiet /\ [][NextCalls]_vars

\* Several sessions on the risk page, their steps interleaved in any order.
SpecSessions == Init /\ [][NextSessions]_vars

(***************************************************************************)
(* Properties of the risk flow                                             *)
(***************************************************************************)

\* The explainer and the catalogue have run in this script run.
Analyzed == risk_pc = "shown" /\ "analyze_risk_factors" \in calls

\* The labels of the entries a list holds for an attribute.
LabelsOf(list, attr) == {list[i].label : i \in {j \in DOMAIN list : list[j].attr = attr}}

\* The number of entries a list holds for an attribute.
CountOf(list, attr) == Cardinality({i \in DOMAIN list : list[i].attr = attr})

\* The bands as the claim words them: the label an attribute must show in the
\* risk list and in the protective list, if any.
ClaimedRisk(p) ==
    [glucose |-> IF p.glucose > 140 THEN {"High Glucose Level"}
                 ELSE IF 126 < p.glucose /\ p.glucose <= 140 THEN {"Elevated Glucose"}
                 ELSE {},
     bmi |-> IF p.bmi > 3000 THEN {"Obesity"}
             ELSE IF 2500 < p.bmi /\ p.bmi <= 3000 THEN {"Overweight"} ELSE {},
     age |-> IF p.age > 45 THEN {"Advanced Age"} ELSE {},
     pregnancies |-> IF p.pregnancies > 4 THEN {"Multiple Pregnancies"} ELSE {},
     blood_pressure |-> IF p.blood_pressure > 90 THEN {"High Blood Pressure"} ELSE {},
     insulin |-> IF p.insulin > 200 THEN {"High Insulin"}
                 ELSE IF 125 < p.insulin /\ p.insulin <= 200 THEN {"Elevated Insulin"}
                 ELSE {},
     dpf |-> IF p.dpf > 100 THEN {"High Genetic Risk"}
             ELSE IF 50 < p.dpf /\ p.dpf <= 100 THEN {"Moderate Genetic Risk"} ELSE {},
     skin_thickness |-> IF p.skin_thickness > 35 THEN {"Thick Skin Fold"} ELSE {}]

ClaimedProtective(p) ==
    [glucose |-> IF p.glucose < 100 THEN {"Normal Glucose"} ELSE {},
     bmi |-> IF 1850 <= p.bmi /\ p.bmi <= 2490 THEN {"Healthy Weight"} ELSE {},
     age |-> IF p.age < 35 THEN {"Young Age"} ELSE {},
     pregnancies |-> IF p.pregnancies = 0 THEN {"No Previous Pregnancies"} ELSE {},
     blood_pressure |-> IF p.blood_pressure < 80 THEN {"Normal Blood Pressure"} ELSE {},
     insulin |-> IF p.insulin < 100 THEN {"Normal Insulin"} ELSE {},
     dpf |-> IF p.dpf < 30 THEN {"Low Genetic Risk"} ELSE {},
     skin_thickness |-> IF p.skin_thickness < 20 THEN {"Normal Skin Thickness"} ELSE {}]

\* C1: analyze_risk_factors bands every attribute by the fixed strict
\* thresholds: for each attribute the risk list holds exactly the entry of the
\* band the value lies in (none outside the risk bands) and the protective
\* list exactly the protective entry (none outside the protective band), each
\* carrying the value; glucose > 140 gives the high-glucose entry and no
\* glucose protective entry, glucose < 100 the reverse; the example profile
\* gives a glucose risk entry and protective entries for BMI, age, blood
\* pressure, pedigree and skin-fold.
C1_Banding ==
    Analyzed =>
        /\ \A a \in Attributes :
              /\ LabelsOf(risk_factors, a) = ClaimedRisk(profile)[a]
              /\ LabelsOf(protective_factors, a) = ClaimedProtective(profile)[a]
        /\ \A i \in DOMAIN risk_factors :
              risk_factors[i].value = profile[risk_factors[i].attr]
        /\ \A i \in DOMAIN protective_factors :
              protective_factors[i].value = profile[protective_factors[i].attr]
        /\ profile.glucose > 140 =>
              /\ "High Glucose Level" \in LabelsOf(risk_factors, "glucose")
              /\ CountOf(protective_factors, "glucose") = 0
        /\ profile.glucose < 100 =>
              /\ CountOf(risk_factors, "glucose") = 0
              /\ "Normal Glucose" \in LabelsOf(protective_factors, "glucose")
        /\ profile = ExampleProfile =>
              /\ CountOf(risk_factors, "glucose") = 1
              /\ \A a \in {"bmi", "age", "blood_pressure", "dpf", "skin_thickness"} :
                    CountOf(protective_factors, a) = 1

\* The example profile has been analysed.
C1_Witness ==
    /\ Analyzed
    /\ profile = ExampleProfile
    /\ LabelsOf(risk_factors, "glucose") = {"High Glucose Level"}
    /\ Len(protective_factors) = 7

\* The value of an attribute lies in neither a risk band nor a protective band.
Untagged(p, a) == ClaimedRisk(p)[a] = {} /\ ClaimedProtective(p)[a] = {}

\* C2: no attribute contributes both a risk entry and a protective entry: each
\* attribute has at most one entry in the two lists together, the lists hold
\* at most 8 entries together, and an attribute whose value lies in its
\* untagged middle band has no entry in either list.
C2_AtMostOneEntry ==
    Analyzed =>
        /\ \A a \in Attributes :
              /\ CountOf(risk_factors, a) + CountOf(protective_factors, a) <= 1
              /\ Untagged(profile, a) =>
                    CountOf(risk_factors, a) + CountOf(protective_factors, a) = 0
        /\ \A i \in DOMAIN risk_factors : risk_factors[i].attr \in Attributes
        /\ \A i \in DOMAIN protective_factors : protective_factors[i].attr \in Attributes
        /\ Len(risk_factors) + Len(protective_factors) <= 8

\* A run in which an attribute is in its middle band while both lists hold
\* entries of other attributes.
C2_Witness ==
    /\ Analyzed
    /\ Untagged(profile, "age")
    /\ ~Untagged(profile, "glucose")
    /\ risk_factors # <<>>
    /\ protective_factors # <<>>

AttributeOrder ==
    <<"glucose", "bmi", "age", "pregnancies", "blood_pressure", "insulin", "dpf",
      "skin_thickness">>

Rank(attr) == CHOOSE i \in DOMAIN AttributeOrder : AttributeOrder[i] = attr

InEvaluationOrder(list) ==
    \A i, j \in DOMAIN list : i < j => Rank(list[i].attr) < Rank(list[j].attr)

\* C3: in both lists the entries stand in the evaluation order glucose, BMI,
\* age, pregnancies, blood pressure, insulin, pedigree, skin-fold: of two
\* entries of a list the one of the earlier attribute has the smaller index,
\* and no attribute appears twice in a list.
C3_EvaluationOrder ==
    Analyzed => InEvaluationOrder(risk_factors) /\ InEvaluationOrder(protective_factors)

\* A run in which both lists hold several entries, the risk list starting
\* with BMI and the protective list with glucose.
C3_Witness ==
    /\ Analyzed
    /\ Len(risk_factors) >= 3
    /\ Len(protective_factors) >= 3
    /\ risk_factors[1].attr = "bmi"
    /\ protective_factors[1].attr = "glucose"

ScorerCalls == {"scaler.transform", "model.predict", "model.predict_proba"}

\* C9: when either artifact is missing the request is terminal: the loader
\* reports the configuration error and yields no usable pair, predict_diabetes
\* returns no label and no probability without calling the transform or the
\* scorer, and main renders no result: neither analyze_risk_factors nor
\* get_lifestyle_recommendations is called and no label, probability, factor
\* list or recommendation is shown.
C9_UnavailableIsTerminal ==
    ((~model_file \/ ~scaler_file) /\ risk_pc \in {"render", "shown"}) =>
        /\ screen.error
        /\ cache # <<>> /\ cache[1].model = None /\ cache[1].scaler = None
        /\ prediction = None
        /\ probability = None
        /\ calls = {"load_model_and_scaler"}
        /\ calls \cap ScorerCalls = {}
        /\ risk_factors = <<>> /\ protective_factors = <<>> /\ recommendations = <<>>
        /\ screen = [BlankScreen EXCEPT !.error = TRUE]

\* A finished run with the model on disk and the scaler missing.
C9_Witness ==
    /\ model_file
    /\ ~scaler_file
    /\ risk_pc = "shown"
    /\ screen.error
    /\ loads = 1

C18_FirstEightShown ==
    /\ Len(screen.recommendations) <= 8
    /\ \A i \in DOMAIN screen.recommendations : screen.recommendations[i] # "Hydration"
    /\ Analyzed =>
          /\ prediction = <<1>> =>
                screen.recommendations =
                   <<"Immediate Action", "Monitoring", "Medication",
                     "Diet Plan", "Portion Control", "Meal Timing",
                     "Cardio Exercise", "Strength Training">>
          /\ prediction = <<0>> =>
                screen.recommendations =
                   <<"Diet Plan", "Portion Control", "Meal Timing",
                     "Cardio Exercise", "Strength Training", "Daily Activity",
                     "Sleep Quality", "Stress Management">>

\* A positive run: the catalogue has 12 entries ending with hydration and the
\* page shows 8 of them.
C18_Witness ==
    /\ Analyzed
    /\ prediction = <<1>>
    /\ Len(recommendations) = 12
    /\ recommendations[12] = "Hydration"
    /\ Len(screen.recommendations) = 8
    /\ screen.recommendations[8] = "Strength Training"

\* A session holds the pair that load_model_and_scaler returned to it.
HoldsPair(s) == sessions[s].pc \in {"loaded", "shown"}

\* C12: in any interleaving of the sessions' requests the body of
\* load_model_and_scaler runs at most once; every call returns the pair that
\* the one run of the body stored, the stored pair and the count of runs never
\* change once the pair is stored, and a step of one session changes nothing
\* of another session.
C12_LoadedOnce ==
    /\ [](/\ loads <= 1
          /\ (cache = <<>>) <=> (loads = 0)
          /\ cache # <<>> => cache[1] = load_body(model_file, scaler_file)
          /\ \A s \in Sessions :
                HoldsPair(s) => cache # <<>> /\ sessions[s].pair = cache)
    /\ [][cache # <<>> => (cache' = cache /\ loads' = loads)]_vars
    /\ [][\A s \in Sessions :
            sessions'[s] # sessions[s]
                => \A t \in Sessions \ {s} : sessions'[t] = sessions[t]]_vars
    /\ [][model_file' = model_file /\ scaler_file' = scaler_file]_vars

\* Session 1 found no entry, and before it could fill it session 2 loaded
\* the pair and finished its request.
C12_Witness ==
    /\ sessions[1].pc = "miss"
    /\ sessions[2].pc = "shown"
    /\ sessions[2].prediction # None
    /\ cache # <<>>
    /\ loads = 1

(***************************************************************************)
(* Properties of the diet flow                                             *)
(***************************************************************************)

\* The lists handed to the renderer, keyed like the parser's lists.
PageLists ==
    [restaurants |-> page.restaurant_names, breakfast |-> page.breakfast_names,
     dinner |-> page.dinner_names, workouts |-> page.workout_names]

\* A POST request has been answered.
Answered == diet_pc = "done" /\ stages # <<>>

\* C5: for a well-formed four-section document with n numbered lines per
\* section, whatever the item texts, the parser extracts exactly the n items
\* of each section, cleaned and in document order.
C5_WellFormedExtraction ==
    (Answered /\ doc_shape.family = "well-formed") =>
        \A k \in Sections :
            extracted[k] = [i \in 1..doc_shape.n |-> ItemOf(doc_shape.texts[k], i)]

\* The text holds no "**" marker at all, so it has no section structure.
NoMarkup(text) == ~Contains(text, <<"*", "*">>)

\* No section keyword, in any letter case, occurs in the text.
NoKeyword(text) == \A i \in DOMAIN text : LowerChar(text[i]) \notin LowerKeywords

\* C6 as stated: an empty document or a document without the four-section
\* structure gives exactly the default list in each category.
C6_GarbageGivesDefaults ==
    (Answered /\ ~gemini_raised /\ NoMarkup(gemini_result)) =>
        /\ page.template = "result.html"
        /\ PageLists = DefaultLists

\* C6 amended: an empty document, or a document in which no section keyword
\* occurs in any letter case, gives the result page with exactly the default
\* list in each category (6 restaurants, 6 breakfasts, 5 dinners, 6 workouts).
C6_KeywordFreeGivesDefaults ==
    (Answered /\ ~gemini_raised /\ NoKeyword(gemini_result)) =>
        /\ page.template = "result.html"
        /\ PageLists = DefaultLists
        /\ Len(page.restaurant_names) = 6
        /\ Len(page.breakfast_names) = 6
        /\ Len(page.dinner_names) = 5
        /\ Len(page.workout_names) = 6

\* A keyword-free document with markup and an item-like line has been answered
\* with the defaults, after both passes ran.
C6_Witness ==
    /\ Answered
    /\ ~gemini_raised
    /\ NoKeyword(gemini_result)
    /\ Contains(gemini_result, <<"*", "*">>)
    /\ Contains(gemini_result, <<"-", "a">>)
    /\ stages = <<"primary", "fallback", "defaults">>
    /\ PageLists = DefaultLists

\* C7 as stated: every answered request hands the renderer at least as many
\* entries per category as that category's default list has.
C7_AtLeastDefaultCount ==
    Answered =>
        /\ page.template = "result.html"
        /\ \A k \in Sections : Len(PageLists[k]) >= Len(DefaultLists[k])

\* C7 amended: every answered request ends with the result page and none of
\* the four lists handed to it is empty.
C7_NeverEmpty ==
    Answered =>
        /\ page.template = "result.html"
        /\ \A k \in Sections : Len(PageLists[k]) >= 1

\* A request answered with one extracted dinner, fewer than the five defaults.
C7_Witness ==
    /\ Answered
    /\ Len(page.dinner_names) = 1
    /\ page.dinner_names # DefaultLists.dinner
    /\ page.restaurant_names = DefaultLists.restaurants

\* C8: when the text-generation call raises, the parser is given the prefix
\* followed by the message and, for every message, the request ends with the
\* result page holding the defaults in all four lists.
C8_ErrorGivesDefaults ==
    (Answered /\ gemini_raised) =>
        /\ StartsWith(gemini_result, ErrorPrefix)
        /\ page.template = "result.html"
        /\ PageLists = DefaultLists

\* C10: the lists handed to the renderer hold at most 6 restaurants, 6
\* breakfasts, 5 dinners and 6 workouts.
C10_Capped ==
    Answered =>
        /\ Len(page.restaurant_names) <= 6
        /\ Len(page.breakfast_names) <= 6
        /\ Len(page.dinner_names) <= 5
        /\ Len(page.workout_names) <= 6

\* The primary pass has just run.
AfterPrimary == stages = <<"primary">> /\ diet_pc \in {"fallback", "defaults"}

\* The chunks between the "**" markers of the document.
Chunks == Split(gemini_result, <<"*", "*">>)

\* The section of the first keyword, in the order restaurant, breakfast,
\* dinner, workout, that a chunk holds: spelled with a capital first letter,
\* or in any letter case; "" for a chunk without one.
CapitalKeywordOf(chunk) ==
    IF \E i \in DOMAIN chunk : chunk[i] = "Restaurant" THEN "restaurants"
    ELSE IF \E i \in DOMAIN chunk : chunk[i] = "Breakfast" THEN "breakfast"
    ELSE IF \E i \in DOMAIN chunk : chunk[i] = "Dinner" THEN "dinner"
    ELSE IF \E i \in DOMAIN chunk : chunk[i] = "Workout" THEN "workouts"
    ELSE ""

AnyCaseKeywordOf(chunk) ==
    IF \E i \in DOMAIN chunk : chunk[i] \in {"Restaurant", "restaurant"} THEN "restaurants"
    ELSE IF \E i \in DOMAIN chunk : chunk[i] \in {"Breakfast", "breakfast"} THEN "breakfast"
    ELSE IF \E i \in DOMAIN chunk : chunk[i] \in {"Dinner", "dinner"} THEN "dinner"
    ELSE IF \E i \in DOMAIN chunk : chunk[i] \in {"Workout", "workout"} THEN "workouts"
    ELSE ""

\* The section that is current when chunk i is reached, given the section
\* each chunk switches to: that of the last switching chunk before i.
SectionAt(i, switch) ==
    LET before == {j \in 1..(i - 1) : switch[j] # ""}
    IN  IF before = {} THEN ""
        ELSE switch[CHOOSE j \in before : \A h \in before : h <= j]

\* The items the lines of chunk i give.
ItemsOfChunk(i) == collect_items(Split(Strip(Chunks[i]), <<"\n">>))

\* The four lists when the chunks that switch are skipped whole and every
\* other chunk gives its items to the section current at it.
ListsBySwitch(switch) ==
    LET at == [i \in 1..Len(switch) |-> IF switch[i] = "" THEN SectionAt(i, switch) ELSE ""]
        items == [i \in 1..Len(switch) |-> IF at[i] = "" THEN <<>> ELSE ItemsOfChunk(i)]
    IN  [k \in Sections |->
            Flatten([i \in 1..Len(switch) |-> IF at[i] = k THEN items[i] ELSE <<>>])]

\* C13 as stated: in the primary pass a chunk holding a keyword in any letter
\* case switches the current section and gives no item; the lists are those
\* of the other chunks.
C13_AnyCaseSwitches ==
    AfterPrimary =>
        LET chunks == Chunks
        IN  CurrentLists =
                ListsBySwitch([i \in 1..Len(chunks) |-> AnyCaseKeywordOf(chunks[i])])

\* C13 amended: in the primary pass a chunk holding Restaurant, Breakfast,
\* Dinner or Workout with a capital first letter switches the current section
\* and none of its lines is added to a list; a chunk holding a keyword only in
\* another letter case switches nothing and gives its lines to the current
\* section like any other chunk.
C13_CapitalSwitches ==
    AfterPrimary =>
        LET chunks == Chunks
        IN  CurrentLists =
                ListsBySwitch([i \in 1..Len(chunks) |-> CapitalKeywordOf(chunks[i])])

\* A document in which a chunk with a capitalised keyword and lines of its own
\* gave nothing, and a chunk with a keyword in lower case gave items.
C13_Witness ==
    /\ AfterPrimary
    /\ \E i \in 1..Len(Chunks) :
          /\ CapitalKeywordOf(Chunks[i]) # ""
          /\ Contains(Chunks[i], <<"\n", "1", ".">>)
    /\ \E i \in 1..Len(Chunks) :
          /\ CapitalKeywordOf(Chunks[i]) = ""
          /\ AnyCaseKeywordOf(Chunks[i]) # ""
          /\ ItemsOfChunk(i) # <<>>
          /\ \E k \in Sections :
                /\ SectionAt(i, [j \in 1..Len(Chunks) |-> CapitalKeywordOf(Chunks[j])]) = k
                /\ \E n \in DOMAIN CurrentLists[k] :
                      CurrentLists[k][n] = ItemsOfChunk(i)[1]

\* A stage of the parser has run in this request.
Ran(stage) == \E i \in DOMAIN stages : stages[i] = stage

\* What the primary pass gives for the document of this request.
PrimaryLists == primary_pass(Chunks, "", EmptyLists)

\* C14: the parser runs its stages in the order primary pass, fallback scan,
\* default substitution, and the fallback scan runs exactly when the primary
\* pass left all four lists empty; when the primary pass extracted an item the
\* scan is skipped and the lists go to the default substitution as the primary
\* pass left them, the empty ones being replaced there.
C14_FallbackIffNothing ==
    LET primary == PrimaryLists
    IN  /\ stages \in { <<>>, <<"primary">>, <<"primary", "fallback">>,
                        <<"primary", "defaults">>, <<"primary", "fallback", "defaults">> }
        /\ diet_pc = "fallback" => \A k \in Sections : primary[k] = <<>>
        /\ (Ran("primary") /\ diet_pc # "fallback") =>
              (Ran("fallback") <=> \A k \in Sections : primary[k] = <<>>)
        /\ (Answered /\ ~Ran("fallback")) =>
              /\ extracted = primary
              /\ \A k \in Sections :
                    PageLists[k] = IF primary[k] = <<>> THEN DefaultLists[k]
                                   ELSE primary[k]

\* A request in which the primary pass extracted dinners and no breakfast:
\* the fallback scan, which would have found a breakfast, did not run and
\* the default breakfasts were used.
C14_Witness ==
    /\ Answered
    /\ stages = <<"primary", "defaults">>
    /\ extracted.dinner # <<>>
    /\ extracted.breakfast = <<>>
    /\ fallback_scan(Split(gemini_result, <<"\n">>), "", EmptyLists).breakfast # <<>>
    /\ page.breakfast_names = DefaultLists.breakfast

\* The fallback scan has just run.
AfterFallback == stages = <<"primary", "fallback">> /\ diet_pc = "defaults"

\* C15: after the fallback scan no list holds a line with a section keyword
\* in any letter case (such a line only selects the list), and the lists hold
\* at most 6 restaurants, 6 breakfasts, 5 dinners and 6 workouts.
C15_FallbackCaps ==
    AfterFallback =>
        /\ \A k \in Sections : \A i \in DOMAIN CurrentLists[k] :
              NoKeyword(CurrentLists[k][i])
        /\ Len(restaurant_names) <= 6
        /\ Len(breakfast_names) <= 6
        /\ Len(dinner_names) <= 5
        /\ Len(workout_names) <= 6

\* C16: the default substitution works per category and only on empty
\* lists: a list that reached it empty is replaced by that category's default
\* list (6 restaurants from "Local Health Restaurant", 6 breakfasts from
\* "Oatmeal with fruits", 5 dinners from "Grilled chicken salad", 6 workouts
\* from "Morning walk"), a list with at least one extracted item is handed to
\* the renderer unchanged, and no list handed to the renderer is empty.
C16_DefaultsOnlyForEmpty ==
    Answered =>
        /\ \A k \in Sections :
              /\ extracted[k] = <<>> => PageLists[k] = DefaultLists[k]
              /\ extracted[k] # <<>> => PageLists[k] = extracted[k]
              /\ PageLists[k] # <<>>
        /\ extracted.restaurants = <<>> =>
              /\ Len(page.restaurant_names) = 6
              /\ page.restaurant_names[1] = <<"Local Health Restaurant">>
        /\ extracted.breakfast = <<>> =>
              /\ Len(page.breakfast_names) = 6
              /\ page.breakfast_names[1] = <<"Oatmeal with fruits">>
        /\ extracted.dinner = <<>> =>
              /\ Len(page.dinner_names) = 5
              /\ page.dinner_names[1] = <<"Grilled chicken salad">>
        /\ extracted.workouts = <<>> =>
              /\ Len(page.workout_names) = 6
              /\ page.workout_names[1] = <<"Morning walk">>

\* A request whose fallback scan found two workouts and nothing else: the
\* two workouts are shown as they are and the other three lists are the
\* defaults.
C16_Witness ==
    /\ Answered
    /\ Ran("fallback")
    /\ Len(extracted.workouts) = 2
    /\ page.workout_names = extracted.workouts
    /\ \A k \in Sections \ {"workouts"} :
          extracted[k] = <<>> /\ PageLists[k] = DefaultLists[k]

\* Every line either pass can look at, stripped: the lines of the stripped
\* chunks and the lines of the whole document.
LinesOf(text) ==
    LET ls == Split(text, <<"\n">>) IN {Strip(ls[i]) : i \in DOMAIN ls}

CandidateLines ==
    LinesOf(gemini_result) \cup UNION {LinesOf(Strip(Chunks[i])) : i \in DOMAIN Chunks}

IsBlank(t) == \A j \in DOMAIN t : t[j] \in SpaceChars

\* t begins with digits followed by a period.
BeginsWithOrdinal(t) ==
    \E m \in 2..Len(t) : t[m] = "." /\ \A j \in 1..(m - 1) : t[j] \in DigitChars

\* t begins with a dash or the bullet glyph.
BeginsWithBullet(t) == t # <<>> /\ t[1] \in BulletChars

\* t is nothing, or digits, a period and white space.
IsOrdinalPart(t) ==
    \/ t = <<>>
    \/ \E m \in 2..Len(t) :
          /\ t[m] = "."
          /\ \A j \in 1..(m - 1) : t[j] \in DigitChars
          /\ IsBlank(SubSeq(t, m + 1, Len(t)))

\* t is nothing, or a dash or bullet glyph and white space.
IsBulletPart(t) == t = <<>> \/ (t[1] \in BulletChars /\ IsBlank(Tail(t)))

\* item is what is left of line when a leading ordinal is removed, if the line
\* begins with one, and then a leading dash or bullet, if the rest begins
\* with one, each with the white space behind it.
CleanedFrom(item, line) ==
    /\ Len(item) <= Len(line)
    /\ SubSeq(line, Len(line) - Len(item) + 1, Len(line)) = item
    /\ LET b == Len(line) - Len(item)
       IN  \E a \in 0..b :
              /\ IsOrdinalPart(SubSeq(line, 1, a))
              /\ IsBulletPart(SubSeq(line, a + 1, b))
              /\ a = 0 => ~BeginsWithOrdinal(line)
              /\ a = b => ~BeginsWithBullet(item)

Trimmed(item) ==
    /\ item # <<>>
    /\ item[1] \notin SpaceChars
    /\ item[Len(item)] \notin SpaceChars

\* C17 as stated: every item either pass extracted is non-empty, has no
\* leading or trailing white space, and begins neither with digits and a
\* period nor with a dash or bullet glyph.
C17_NoLeadingMarkup ==
    Answered =>
        \A k \in Sections : \A i \in DOMAIN extracted[k] :
            /\ Trimmed(extracted[k][i])
            /\ ~BeginsWithOrdinal(extracted[k][i])
            /\ ~BeginsWithBullet(extracted[k][i])

\* C17 amended: every item either pass extracted is non-empty, has no leading
\* or trailing white space, and is a line of the document with one leading
\* ordinal removed, if the line begins with one, and then one leading dash or
\* bullet glyph removed, if the rest begins with one; a marker behind the
\* removed ones stays at the front of the item.
C17_OneMarkerOfEachKind ==
    Answered =>
        LET lines == CandidateLines
        IN  \A k \in Sections : \A i \in DOMAIN extracted[k] :
                /\ Trimmed(extracted[k][i])
                /\ \E line \in lines : CleanedFrom(extracted[k][i], line)

\* A request whose fallback scan took lines of the form "- 1. a1": the items
\* still begin with the ordinal.
C17_Witness ==
    /\ Answered
    /\ Ran("fallback")
    /\ \E k \in Sections :
          /\ Len(extracted[k]) = 2
          /\ extracted[k][1] = <<"1", ".", " ", "a", "1">>
          /\ BeginsWithOrdinal(extracted[k][2])
          /\ <<"-", " ", "1", ".", " ", "a", "1">> \in CandidateLines

====
